---------------------------- MODULE Spec2Model ----------------------------
(***************************************************************************)
(* simpleAVRlib: the GPIO module (GPIO.h / GPIO.c) and the external        *)
(* interrupt module (ExternalInterrupts.h / ExternalInterrupts.c).         *)
(*                                                                         *)
(* The special function registers are 8 bit wide; C expressions are        *)
(* evaluated in the 16 bit int of avr-gcc and truncated on assignment.     *)
(* Which registers exist depends on the chip the library is compiled for:  *)
(* every "#ifdef DDRx" of the source is a test on the chip's set of ports. *)
(***************************************************************************)
EXTENDS Naturals, Integers, FiniteSets, Sequences, TLC

VARIABLES
    chip,        \* the compile target: [name, ports, lines, eicrb]
    shift16,     \* what the build makes of x << n for n >= 16, which C
                 \* leaves undefined on a 16 bit int: "zero" or "noShift"
    DDR,         \* DDRx,  the direction registers, by port index
    PORT,        \* PORTx, the output / pull-up registers, by port index
    EXT,         \* the levels fed into the pins from outside, by port index
    DDR0,        \* DDRx as they were before the program's GPIO call
    PORT0,       \* PORTx as they were before the program's GPIO call
    gpioPc,      \* the GPIO program: "idle", "called", "repeated", "read"
    call,        \* the last call that writes: [op, port, pin, val, mask]
    readCall,    \* the last readPin / readPort: [op, port, pin, mask]
    ret,         \* the value that readPin / readPort returned
    EICRA,       \* sense control of INT0..INT3, two bits per line
    EICRB,       \* sense control of INT4..INT7, two bits per line
    EIMSK,       \* the interrupt mask register, one enable bit per line
    EIFR,        \* the interrupt flag register, one pending flag per line
    callbacks,   \* callbacks[EXT_INT_COUNT], the registered callbacks
    sregI,       \* the global interrupt enable bit of the status register
    isr,         \* the interrupt service routine in execution and the
                 \* callback it invoked: [active, line, callback]
    intN,        \* the line number the program passes to the API
    intM,        \* a second line number the program passes to the API
    registered,  \* by line: the callback of the last attach / detach call
    latched,     \* by line: "no", or whether the line was "disabled" or
                 \* "enabled" at an event not yet cleared or served,
                 \* "merged" when a further event came on the enabled
                 \* line while that event was still waiting, or
                 \* "discarded" once clearPendingExtIntEvent of the line
                 \* has cleared an event that came while it was disabled
    disabledLines, \* the lines not enabled since reset or the last disable
    outOfRange,  \* an API function of the external interrupts has been
                 \* called with a line number >= EXT_INT_COUNT
    _extIntNumber, \* the private field of the ExtInt object of the program
    ctor,        \* the constructor of that object: the statement it is at
                 \* and its arguments [pc, type, callback, enabled], with
                 \* pending: an event was pending on its line when it began
    mainOp,      \* the library function main is executing, instruction by
                 \* instruction: [fn, port, pin, val, mask, line, cb, ...]
    mainPc,      \* how many of its register accesses main has executed
    tmp,         \* the CPU register that holds what main has loaded
    cbOp         \* the library function the running callback has called

gpioVars  == <<DDR, PORT, EXT, DDR0, PORT0, gpioPc>>
irqVars   == <<EICRA, EICRB, EIMSK, EIFR, callbacks, sregI, isr>>
ghostVars == <<registered, latched, disabledLines, outOfRange>>
objVars   == <<_extIntNumber, ctor>>
stepVars  == <<mainOp, mainPc, tmp, cbOp>>
vars      == <<chip, shift16, gpioVars, call, readCall, ret, irqVars, intN, intM,
               ghostVars, objVars, stepVars>>

-----------------------------------------------------------------------------
(* Bounds of the model *)

\* how many of the RegPatterns the registers hold before the call
NumRegPatterns == 2
\* how many of the ArgPatterns are passed as value and as mask
NumArgPatterns == 3
\* the port arguments tried are 0 .. MaxPortArg (port_L is 11)
MaxPortArg == 12
\* the mode / pull-up / level arguments tried are 0 .. MaxValueArg
MaxValueArg == 2
\* the line numbers tried are 0 .. MaxLineArg (the last line is INT7)
MaxLineArg == 8
\* the two line numbers of a program are at most MaxLineGap apart
MaxLineGap == 1
\* the event types tried are 0 .. MaxTypeArg and 0xFF
MaxTypeArg == 4

\* how many of the WidePins are passed as pin number besides 0 .. 7
NumWidePins == 3

RegPatterns == << <<165, 60, 15>>, <<0, 0, 255>>, <<255, 255, 0>>, <<15, 85, 51>> >>
ArgPatterns == << 85, 15, 255, 0, 12, 128 >>

InitialRegs == { RegPatterns[i] : i \in 1..NumRegPatterns }
ByteArgs    == { ArgPatterns[i] : i \in 1..NumArgPatterns }
PortArgs    == 0..MaxPortArg
WidePins    == << 8, 200, 16, 15, 255 >>
PinArgs     == 0..7 \cup { WidePins[i] : i \in 1..NumWidePins }
ValueArgs   == 0..MaxValueArg

-----------------------------------------------------------------------------
(* C arithmetic on the AVR: int is 16 bit, the registers are uint8_t *)

RECURSIVE BitAnd(_, _)
BitAnd(a, b) ==
    IF a = 0 \/ b = 0 THEN 0
    ELSE (a % 2) * (b % 2) + 2 * BitAnd(a \div 2, b \div 2)

RECURSIVE BitOr(_, _)
BitOr(a, b) ==
    IF a = 0 THEN b
    ELSE IF b = 0 THEN a
    ELSE (IF a % 2 = 1 \/ b % 2 = 1 THEN 1 ELSE 0) + 2 * BitOr(a \div 2, b \div 2)

RECURSIVE BitXor(_, _)
BitXor(a, b) ==
    IF a = 0 THEN b
    ELSE IF b = 0 THEN a
    ELSE ((a + b) % 2) + 2 * BitXor(a \div 2, b \div 2)

\* ~x on a 16 bit int, as its two's complement bit pattern
BitNot(x) == 65535 - x

\* the outcomes of a shift by 16 or more: all bits shifted out, or no
\* shift at all (the shift loop of avr-gcc counts in a signed byte)
WideShifts == {"zero", "noShift"}

\* x << n on a 16 bit int; undefined for n >= 16
ShiftLeft(x, n) ==
    IF n < 16 THEN (x * (2 ^ n)) % 65536
    ELSE IF shift16 = "zero" THEN 0 ELSE x

\* the assignment of an int to a uint8_t register
ToUint8(x) == x % 256

\* bit n of the byte x
BitAt(x, n) == (x \div (2 ^ n)) % 2


-----------------------------------------------------------------------------
(* GPIO.h: the macros passed as arguments *)

port_A == 0
port_B == 1
port_C == 2
port_D == 3
port_E == 4
port_F == 5
port_G == 6
port_H == 7
port_I == 8
port_J == 9
port_K == 10
port_L == 11

MODE_INPUT  == 0
MODE_OUTPUT == 1
PULLUP_OFF  == 0
PULLUP_ON   == 1
HIGH_LEVEL  == 1
LOW_LEVEL   == 0

Ports == port_A..port_L

(* The compile targets. The ATmega328P has the ports B, C, D and the       *)
(* external interrupts INT0, INT1; the ATmega2560 has the ports A..H, J,   *)
(* K, L, the external interrupts INT0..INT7 and the register EICRB.        *)
ATmega328P ==
    [name |-> "ATmega328P", ports |-> {port_B, port_C, port_D},
     lines |-> 2, eicrb |-> FALSE]

ATmega2560 ==
    [name |-> "ATmega2560", ports |-> Ports \ {port_I},
     lines |-> 8, eicrb |-> TRUE]

Chips == {ATmega328P, ATmega2560}

\* no #ifdef at all: every register is taken to exist
DefinedAlways(port) == TRUE

\* #ifdef DDRx / PORTx / PINx: the registers of port x exist on the chip
Defined(port) == port \in chip.ports

-----------------------------------------------------------------------------
(* GPIO.c: the statements on one register *)

\* REG |= (0x01 << bitNumber);
SetBit(reg, bitNumber) == ToUint8(BitOr(reg, ShiftLeft(1, bitNumber)))

\* REG &= ~(0x01 << bitNumber);
ClearBit(reg, bitNumber) ==
    ToUint8(BitAnd(reg, BitNot(ShiftLeft(1, bitNumber))))

\* REG ^= (0x01 << bitNumber);
ToggleBit(reg, bitNumber) == ToUint8(BitXor(reg, ShiftLeft(1, bitNumber)))

\* an or in place of the exclusive or: the bits of the mask are only set
ToggleMaskSetOnly(reg, mask) == ToUint8(BitOr(reg, mask))

\* REG ^= mask;
ToggleMask(reg, mask) == ToUint8(BitXor(reg, mask))

\* REG |= mask & value;
SetMaskedBits(reg, value, mask) == ToUint8(BitOr(reg, BitAnd(mask, value)))

\* the mask is forgotten: REG &= value
ClearUnmaskedBitsToo(reg, value, mask) == ToUint8(BitAnd(reg, value))

\* REG &= ~(mask & ~value);
ClearMaskedBits(reg, value, mask) ==
    ToUint8(BitAnd(reg, BitNot(BitAnd(mask, BitNot(value)))))

\* the first statement alone: the bits asked to be 0 are not cleared
MaskedWriteSetOnly(reg, value, mask) ==
    ToUint8(BitOr(reg, BitAnd(mask, value)))

\* REG |= mask & value;  REG &= ~(mask & ~value);
MaskedWrite(reg, value, mask) ==
    LET afterOr == ToUint8(BitOr(reg, BitAnd(mask, value)))
    IN  ToUint8(BitAnd(afterOr, BitNot(BitAnd(mask, BitNot(value)))))

\* the levels at the pins of a port: an output pin shows its bit of PORTx,
\* an input pin the level fed into it
PinLevels(ddr, portx, ext) ==
    BitOr(BitAnd(ddr, portx), BitAnd(255 - ddr, ext))

\* the level at the pins of a port, which is what PINx reads: an output
\* pin shows the level it drives, an input pin the level fed into it
PIN(port) == PinLevels(DDR[port], PORT[port], EXT[port])

-----------------------------------------------------------------------------
(* GPIO.c: the "private" helper functions, one switch case per port *)

\* the port whose DDRx the #ifdef of a case of _setDDRBitValue tests
IfdefOf_setDDRBitValue(port) == IF port = port_C THEN port_A ELSE port

\* the port whose PORTx the #ifdef of a case of _setPORTBitValue tests
IfdefOf_setPORTBitValue(port) == IF port = port_C THEN port_A ELSE port

\* the cases of the switch in _togglePORTBit
CasesOf_togglePORTBit == port_A..port_K

\* DDR after the call
_setDDRBitValue(port, bitNumber, bitValue) ==
    IF port \in Ports /\ Defined(IfdefOf_setDDRBitValue(port))
    THEN [DDR EXCEPT ![port] = IF bitValue # 0 THEN SetBit(@, bitNumber)
                                               ELSE ClearBit(@, bitNumber)]
    ELSE DDR

\* PORT after the call
_setPORTBitValue(port, bitNumber, bitValue) ==
    IF port \in Ports /\ Defined(IfdefOf_setPORTBitValue(port))
    THEN [PORT EXCEPT ![port] = IF bitValue # 0 THEN SetBit(@, bitNumber)
                                                ELSE ClearBit(@, bitNumber)]
    ELSE PORT

\* PORT after the call
_togglePORTBit(port, bitNumber) ==
    IF port \in CasesOf_togglePORTBit /\ Defined(port)
    THEN [PORT EXCEPT ![port] = ToggleBit(@, bitNumber)]
    ELSE PORT

\* the value returned
_getPINBit(port, bitNumber) ==
    IF port \in Ports /\ Defined(port)
    THEN (IF BitAnd(PIN(port), ShiftLeft(1, bitNumber)) # 0 THEN 1 ELSE 0)
    ELSE 0

-----------------------------------------------------------------------------
(* GPIO.c: the C API. Each function is given by the registers after it.    *)

\* DDR after setPinMode
setPinMode(port, pinNumber, mode) ==
    CASE mode = MODE_OUTPUT -> _setDDRBitValue(port, pinNumber, 1)
      [] mode = MODE_INPUT  -> _setDDRBitValue(port, pinNumber, 0)
      [] OTHER              -> DDR

\* PORT after setPinPullup
setPinPullup(port, pinNumber, onOff) ==
    CASE onOff = PULLUP_ON  -> _setPORTBitValue(port, pinNumber, 1)
      [] onOff = PULLUP_OFF -> _setPORTBitValue(port, pinNumber, 0)
      [] OTHER              -> PORT

\* the level is written only to a pin that is an output in DDRx
writePinOfOutput(port, pinNumber, voltageLevel) ==
    IF port \in Ports /\ pinNumber < 8 /\ BitAt(DDR[port], pinNumber) = 0
    THEN PORT
    ELSE CASE voltageLevel = HIGH_LEVEL -> _setPORTBitValue(port, pinNumber, 1)
           [] voltageLevel = LOW_LEVEL  -> _setPORTBitValue(port, pinNumber, 0)
           [] OTHER                     -> PORT

\* PORT after writePin
writePin(port, pinNumber, voltageLevel) ==
    CASE voltageLevel = HIGH_LEVEL -> _setPORTBitValue(port, pinNumber, 1)
      [] voltageLevel = LOW_LEVEL  -> _setPORTBitValue(port, pinNumber, 0)
      [] OTHER                     -> PORT

\* the value readPin returns
readPin(port, pinNumber) == _getPINBit(port, pinNumber)

\* PORT after togglePin
togglePin(port, pinNumber) == _togglePORTBit(port, pinNumber)

\* DDR after setPortMode
setPortMode(port, mode, mask) ==
    IF port \in Ports /\ Defined(port)
    THEN [DDR EXCEPT ![port] = MaskedWrite(@, mode, mask)]
    ELSE DDR

\* PORT after setPortPullup
setPortPullup(port, pullup, mask) ==
    IF port \in Ports /\ Defined(port)
    THEN [PORT EXCEPT ![port] = MaskedWrite(@, pullup, mask)]
    ELSE PORT

\* PORT after writePort
writePort(port, voltageLevels, mask) ==
    IF port \in Ports /\ Defined(port)
    THEN [PORT EXCEPT ![port] = MaskedWrite(@, voltageLevels, mask)]
    ELSE PORT

\* PORT after togglePort
togglePort(port, mask) ==
    IF port \in Ports /\ Defined(port)
    THEN [PORT EXCEPT ![port] = ToggleMask(@, mask)]
    ELSE PORT

\* the input register as it is, the mask forgotten
readPortUnmasked(port, mask) ==
    IF port \in Ports /\ Defined(port) THEN PIN(port) ELSE 0

\* the value readPort returns
readPort(port, mask) ==
    IF port \in Ports /\ Defined(port) THEN BitAnd(PIN(port), mask) ELSE 0

-----------------------------------------------------------------------------
(* GPIO.h: the C++ API *)

\* DDR after the constructor of GPIOPin, which calls setPinMode
GPIOPin(port, pinNumber, mode) == setPinMode(port, pinNumber, mode)

-----------------------------------------------------------------------------
(* The GPIO program: the registers hold some values, the program makes one *)
(* call that writes a register, may repeat a toggle, and reads the port    *)
(* back.                                                                   *)

NoCall == [op |-> "none", port |-> 0, pin |-> 0, val |-> 0, mask |-> 0]
NoRead == [op |-> "none", port |-> 0, pin |-> 0, mask |-> 0]

\* the registers of the ports the chip has hold d, the others do not exist
Registers(c, d) == [p \in Ports |-> IF p \in c.ports THEN d ELSE 0]

InitGPIO ==
    /\ \E regs \in InitialRegs :
          /\ DDR   = Registers(chip, regs[1])
          /\ PORT  = Registers(chip, regs[2])
          /\ EXT   = Registers(chip, regs[3])
    /\ DDR0 = DDR
    /\ PORT0 = PORT
    /\ gpioPc = "idle"
    /\ shift16 \in WideShifts

\* the program calls a function that writes DDRx
CallOnDDR(op, port, pin, val, mask, ddr) ==
    /\ gpioPc = "idle"
    /\ DDR' = ddr
    /\ call' = [op |-> op, port |-> port, pin |-> pin, val |-> val, mask |-> mask]
    /\ gpioPc' = "called"
    /\ UNCHANGED <<objVars, stepVars, chip, shift16, PORT, EXT, DDR0, PORT0, readCall, ret, irqVars,
                   intN,
                   intM, ghostVars>>

\* the program calls a function that writes PORTx
CallOnPORT(op, port, pin, val, mask, portx) ==
    /\ gpioPc = "idle"
    /\ PORT' = portx
    /\ call' = [op |-> op, port |-> port, pin |-> pin, val |-> val, mask |-> mask]
    /\ gpioPc' = "called"
    /\ UNCHANGED <<objVars, stepVars, chip, shift16, DDR, EXT, DDR0, PORT0, readCall, ret, irqVars,
                   intN,
                   intM, ghostVars>>

\* the program calls a function that reads PINx: before any write, any
\* port; after a write, the port written
CallRead(op, port, pin, mask, value) ==
    /\ \/ gpioPc = "idle"
       \/ gpioPc = "called" /\ port = call.port
    /\ ret' = value
    /\ readCall' = [op |-> op, port |-> port, pin |-> pin, mask |-> mask]
    /\ gpioPc' = "read"
    /\ UNCHANGED <<objVars, stepVars, chip, shift16, DDR, PORT, EXT, DDR0, PORT0, call, irqVars,
                   intN,
                   intM, ghostVars>>

SetPinMode ==
    /\ gpioPc = "idle"
    /\ \E port \in PortArgs, pin \in PinArgs, mode \in ValueArgs :
           CallOnDDR("setPinMode", port, pin, mode, 0, setPinMode(port, pin, mode))

SetPinPullup ==
    /\ gpioPc = "idle"
    /\ \E port \in PortArgs, pin \in PinArgs, onOff \in ValueArgs :
           CallOnPORT("setPinPullup", port, pin, onOff, 0,
                      setPinPullup(port, pin, onOff))

WritePin ==
    /\ gpioPc = "idle"
    /\ \E port \in PortArgs, pin \in PinArgs, level \in ValueArgs :
           CallOnPORT("writePin", port, pin, level, 0, writePin(port, pin, level))

TogglePin ==
    /\ gpioPc = "idle"
    /\ \E port \in PortArgs, pin \in PinArgs :
           CallOnPORT("togglePin", port, pin, 0, 0, togglePin(port, pin))

ReadPin ==
    /\ gpioPc \in {"idle", "called"}
    /\ \E port \in PortArgs, pin \in PinArgs :
           CallRead("readPin", port, pin, 0, readPin(port, pin))

SetPortMode ==
    /\ gpioPc = "idle"
    /\ \E port \in PortArgs, mode \in ByteArgs, mask \in ByteArgs :
           CallOnDDR("setPortMode", port, 0, mode, mask,
                     setPortMode(port, mode, mask))

SetPortPullup ==
    /\ gpioPc = "idle"
    /\ \E port \in PortArgs, pullup \in ByteArgs, mask \in ByteArgs :
           CallOnPORT("setPortPullup", port, 0, pullup, mask,
                      setPortPullup(port, pullup, mask))

WritePort ==
    /\ gpioPc = "idle"
    /\ \E port \in PortArgs, levels \in ByteArgs, mask \in ByteArgs :
           CallOnPORT("writePort", port, 0, levels, mask,
                      writePort(port, levels, mask))

TogglePort ==
    /\ gpioPc = "idle"
    /\ \E port \in PortArgs, mask \in ByteArgs :
           CallOnPORT("togglePort", port, 0, 0, mask, togglePort(port, mask))

ReadPort ==
    /\ gpioPc \in {"idle", "called"}
    /\ \E port \in PortArgs, mask \in ByteArgs :
           CallRead("readPort", port, 0, mask, readPort(port, mask))

\* the program constructs a GPIOPin
ConstructGPIOPin ==
    /\ gpioPc = "idle"
    /\ \E port \in PortArgs, pin \in PinArgs, mode \in ValueArgs :
           CallOnDDR("GPIOPin", port, pin, mode, 0, GPIOPin(port, pin, mode))

\* the program makes the togglePin / togglePort call it has made once more
ToggleAgain ==
    /\ gpioPc = "called"
    /\ call.op \in {"togglePin", "togglePort"}
    /\ PORT' = IF call.op = "togglePin" THEN togglePin(call.port, call.pin)
                                        ELSE togglePort(call.port, call.mask)
    /\ gpioPc' = "repeated"
    /\ UNCHANGED <<objVars, stepVars, chip, shift16, DDR, EXT, DDR0, PORT0, call, readCall, ret,
                   irqVars, intN, intM, ghostVars>>

NextGPIO ==
    \/ ConstructGPIOPin
    \/ ToggleAgain
    \/ SetPinMode
    \/ SetPinPullup
    \/ WritePin
    \/ TogglePin
    \/ ReadPin
    \/ SetPortMode
    \/ SetPortPullup
    \/ WritePort
    \/ TogglePort
    \/ ReadPort

\* no ExtInt object has been constructed
NoCtor == [pc |-> "none", type |-> 0, callback |-> "NULL", enabled |-> FALSE,
           pending |-> FALSE]

NoObject ==
    /\ _extIntNumber = 255
    /\ ctor = NoCtor

\* main executes no library function instruction by instruction; of a
\* function in execution: nr, the how manieth function of main it is, and
\* old, what its register held when it was called; of the function a
\* callback has called: nr, during, the function of main it interrupted
NoOp == [fn |-> "none", port |-> 0, pin |-> 0, val |-> 0, mask |-> 0,
         line |-> 0, cb |-> "NULL", nr |-> 0, old |-> 0, during |-> "none"]

MainIdle ==
    /\ mainOp = NoOp
    /\ mainPc = 0
    /\ tmp = 0
    /\ cbOp = NoOp

\* no interrupt service routine in execution
NoIsr == [active |-> FALSE, line |-> 0, callback |-> "NULL"]

\* the external interrupt module after reset: the registers are 0, the
\* global pointers of callbacks[] are NULL, interrupts are blocked
ResetIrq ==
    /\ EICRA = 0
    /\ EICRB = 0
    /\ EIMSK = 0
    /\ EIFR = 0
    /\ callbacks = [i \in 0..(chip.lines - 1) |-> "NULL"]
    /\ sregI = FALSE
    /\ isr = NoIsr
    /\ registered = [i \in 0..(chip.lines - 1) |-> "NULL"]
    /\ latched = [i \in 0..(chip.lines - 1) |-> "no"]
    /\ disabledLines = 0..(chip.lines - 1)
    /\ outOfRange = FALSE

InitSpecGPIO ==
    /\ NoObject
    /\ MainIdle
    /\ chip \in Chips
    /\ InitGPIO
    /\ call = NoCall
    /\ readCall = NoRead
    /\ ret = 0
    /\ ResetIrq
    /\ intN = 0
    /\ intM = 0

SpecGPIO == InitSpecGPIO /\ [][NextGPIO]_vars

-----------------------------------------------------------------------------
(* Properties of the GPIO module *)


\* the register a port function writes, now and before the call
TargetNow    == IF call.op = "setPortMode" THEN DDR[call.port] ELSE PORT[call.port]
TargetBefore == IF call.op = "setPortMode" THEN DDR0[call.port] ELSE PORT0[call.port]

\* C1: on every port of the chip, after setPortMode / setPortPullup /
\* writePort (port, v, m) each bit of the register written that is set in m
\* has the value of that bit of v, each bit cleared in m has the value it
\* had before the call, and with the mask 0xFF the register is exactly v.
C1_MaskedWriteKeepsUnmaskedBits ==
    (/\ gpioPc = "called"
     /\ call.op \in {"setPortMode", "setPortPullup", "writePort"}
     /\ call.port \in chip.ports)
    => /\ TargetNow \in 0..255
       /\ \A b \in 0..7 :
             BitAt(TargetNow, b) = IF BitAt(call.mask, b) = 1
                                   THEN BitAt(call.val, b)
                                   ELSE BitAt(TargetBefore, b)
       /\ call.mask = 255 => TargetNow = call.val

\* C1, its case: writePort(port_B, 0x55, 0x0F) on PORTB = 0x3C leaves 0x35,
\* the low nibble of the value under the high nibble of the register
C1_Witness ==
    /\ gpioPc = "called"
    /\ call = [op |-> "writePort", port |-> port_B, pin |-> 0,
               val |-> 85, mask |-> 15]
    /\ PORT0[port_B] = 60
    /\ PORT[port_B] = 53

\* C2: on every port of the chip, for every pin and level Low or High, when
\* the pin is an output readPin(port, pin) after writePin(port, pin, level)
\* returns level.
C2_ReadPinReturnsWrittenLevel ==
    (/\ gpioPc = "read"
     /\ readCall.op = "readPin"
     /\ call.op = "writePin"
     /\ readCall.port = call.port
     /\ readCall.pin = call.pin
     /\ call.val \in {LOW_LEVEL, HIGH_LEVEL}
     /\ call.port \in chip.ports
     /\ call.pin \in 0..7
     /\ BitAt(DDR[call.port], call.pin) = 1)
    => ret = call.val

\* C3: on every port of the chip (port_A .. port_L) togglePin(port, pin)
\* inverts bit pin of the port's output register, and that bit alone.
C3_TogglePinInvertsTheBit ==
    (/\ gpioPc = "called"
     /\ call.op = "togglePin"
     /\ call.port \in chip.ports
     /\ call.pin \in 0..7)
    => \A b \in 0..7 :
          BitAt(PORT[call.port], b) =
              IF b = call.pin THEN 1 - BitAt(PORT0[call.port], b)
                              ELSE BitAt(PORT0[call.port], b)

\* the ports other than the one called
OtherPorts == Ports \ {call.port}

\* the call has left every register as it was
NothingWritten == DDR = DDR0 /\ PORT = PORT0

\* C11: on every port of the chip readPort(port, m) returns PINx AND m, bit
\* by bit: 0 where m is 0, the bit of the input register where m is 1; and
\* readPort and readPin write no register.
C11_ReadPortReturnsMaskedInput ==
    [][(gpioPc # "read" /\ gpioPc' = "read") =>
          /\ DDR' = DDR /\ PORT' = PORT /\ EXT' = EXT
          /\ (readCall'.op = "readPort" /\ readCall'.port \in chip.ports) =>
                \A b \in 0..7 :
                    BitAt(ret', b) = IF BitAt(readCall'.mask, b) = 1
                                     THEN BitAt(PIN(readCall'.port), b)
                                     ELSE 0]_vars

\* readPort(port_D, 0x0F) on PIND = 0x2E has returned 0x0E
C11_Witness ==
    /\ gpioPc = "read"
    /\ readCall = [op |-> "readPort", port |-> port_D, pin |-> 0, mask |-> 15]
    /\ PIN(port_D) = 46
    /\ ret = 14

\* C12: togglePort(port, m) leaves r XOR m in PORTx, so the bits outside m
\* are as before; togglePin changes no bit but that of its pin; and
\* togglePin or togglePort called twice leaves PORTx as it was.
C12_ToggleTwiceRestores ==
    /\ (gpioPc = "called" /\ call.op = "togglePort"
                          /\ call.port \in chip.ports) =>
          /\ \A b \in 0..7 :
                BitAt(PORT[call.port], b) =
                    (BitAt(PORT0[call.port], b) + BitAt(call.mask, b)) % 2
          /\ \A q \in OtherPorts : PORT[q] = PORT0[q]
    /\ (gpioPc = "called" /\ call.op = "togglePin"
                          /\ call.port \in chip.ports /\ call.pin \in 0..7) =>
          /\ \A b \in 0..7 :
                b # call.pin =>
                    BitAt(PORT[call.port], b) = BitAt(PORT0[call.port], b)
          /\ \A q \in OtherPorts : PORT[q] = PORT0[q]
    /\ gpioPc = "repeated" => PORT = PORT0

\* togglePort(port_D, 0x0F) has been called twice on PORTD = 0x3C
C12_Witness ==
    /\ gpioPc = "repeated"
    /\ call.op = "togglePort"
    /\ call.port = port_D
    /\ call.mask = 15
    /\ PORT[port_D] = 60

\* C13: on every port of the chip and for pin 0..7, setPinMode(port, pin,
\* MODE_OUTPUT) sets and setPinMode(port, pin, MODE_INPUT) clears bit pin of
\* DDRx; the other bits of DDRx, the DDR of the other ports and every PORTx
\* are as before.
C13_SetPinModeWritesOneDirectionBit ==
    (/\ gpioPc = "called"
     /\ call.op = "setPinMode"
     /\ call.port \in chip.ports
     /\ call.pin \in 0..7
     /\ call.val \in {MODE_INPUT, MODE_OUTPUT})
    => /\ \A b \in 0..7 :
             BitAt(DDR[call.port], b) =
                 IF b = call.pin THEN (IF call.val = MODE_OUTPUT THEN 1 ELSE 0)
                                 ELSE BitAt(DDR0[call.port], b)
       /\ \A q \in OtherPorts : DDR[q] = DDR0[q]
       /\ PORT = PORT0

\* the call asks for a change of the register it writes
AsksForChange ==
    LET p == call.port
    IN  CASE call.op \in {"setPinMode", "GPIOPin"} ->
                 /\ call.val \in {0, 1} /\ call.pin \in 0..7
                 /\ BitAt(DDR0[p], call.pin) # call.val
          [] call.op \in {"setPinPullup", "writePin"} ->
                 /\ call.val \in {0, 1} /\ call.pin \in 0..7
                 /\ BitAt(PORT0[p], call.pin) # call.val
          [] call.op = "togglePin" -> call.pin \in 0..7
          [] call.op = "togglePort" -> call.mask # 0
          [] call.op = "setPortMode" ->
                 \E b \in 0..7 : /\ BitAt(call.mask, b) = 1
                                 /\ BitAt(call.val, b) # BitAt(DDR0[p], b)
          [] call.op \in {"setPortPullup", "writePort"} ->
                 \E b \in 0..7 : /\ BitAt(call.mask, b) = 1
                                 /\ BitAt(call.val, b) # BitAt(PORT0[p], b)
          [] OTHER -> FALSE

\* C14: for every port index 0..11 and every chip, a pin or port operation
\* on the port that asks for a change takes effect exactly when the
\* registers of that port exist on the chip, whatever other ports exist.
C14_EffectIffOwnPortDefined ==
    (gpioPc = "called" /\ call.port \in Ports /\ AsksForChange)
    => (~NothingWritten <=> call.port \in chip.ports)

C16_PinAboveSevenIsNoOp ==
    /\ (/\ gpioPc = "called"
        /\ call.op \in {"setPinMode", "setPinPullup", "writePin", "togglePin"}
        /\ call.pin \notin 0..7) => NothingWritten
    /\ (gpioPc = "read" /\ readCall.op = "readPin"
                        /\ readCall.pin \notin 0..7) => ret = 0

\* C18: on a port of the chip and for pin 0..7, writePin(port, pin,
\* voltageLevel) clears the bit of the pin in PORTx for voltageLevel 0 and
\* sets it for every other voltageLevel.
C18_WritePinNonZeroIsHigh ==
    (/\ gpioPc = "called"
     /\ call.op = "writePin"
     /\ call.port \in chip.ports
     /\ call.pin \in 0..7)
    => BitAt(PORT[call.port], call.pin) = IF call.val = 0 THEN 0 ELSE 1

\* DDR after the statement of the README, DDRD |= (0x01<<3);
README_RawStatement == [DDR0 EXCEPT ![port_D] = SetBit(@, 3)]

\* C19: setPinMode(port_D, 3, MODE_INPUT), and the construction
\* GPIOPin(port_D, 3, MODE_INPUT), leave the registers as the statement
\* DDRD |= (0x01<<3) leaves them, whatever DDRD held.
C19_SetPinModeEqualsRawStatement ==
    (/\ gpioPc = "called"
     /\ call.op \in {"setPinMode", "GPIOPin"}
     /\ call.port = port_D
     /\ call.pin = 3
     /\ call.val = MODE_INPUT)
    => (DDR = README_RawStatement /\ PORT = PORT0)

\* the program calls the function on a pin in this step
PinCall(op) == gpioPc = "idle" /\ gpioPc' = "called" /\ call'.op = op

\* C23: setPinPullup(port, pin, x) and writePin(port, pin, x) leave the
\* same values in all registers, for every port, pin, x and every state
\* before: each writes to PORTx what the other would have written, and
\* neither writes DDRx nor depends on it, so that a pull-up written to an
\* output pin is its level and a level written to an input pin its pull-up.
C23_PullupAndLevelAreOneWrite ==
    [][/\ PinCall("setPinPullup") =>
              /\ PORT' = writePin(call'.port, call'.pin, call'.val)
              /\ DDR' = DDR
       /\ PinCall("writePin") =>
              /\ PORT' = setPinPullup(call'.port, call'.pin, call'.val)
              /\ DDR' = DDR]_vars

\* setPinPullup has switched on a bit of PORTB that is an output in DDRB
C23_Witness ==
    /\ gpioPc = "called"
    /\ call.op = "setPinPullup"
    /\ call.port = port_B
    /\ call.pin \in 0..7
    /\ call.val = PULLUP_ON
    /\ BitAt(DDR[port_B], call.pin) = 1
    /\ BitAt(PORT0[port_B], call.pin) = 0
    /\ BitAt(PORT[port_B], call.pin) = 1

-----------------------------------------------------------------------------
(* ExternalInterrupts.h: the macros *)

EXTINT_LOW_LEVEL_ACTIVE == 0
EXTINT_ANY_EDGE         == 1
EXTINT_FALLING_EDGE     == 2
EXTINT_RISING_EDGE      == 3

\* the number of external interrupts of the ATmega2560, on every chip
EXT_INT_COUNT_OfATmega2560 == ATmega2560.lines

\* the number of external interrupts of the chip
EXT_INT_COUNT == chip.lines

-----------------------------------------------------------------------------
(* ExternalInterrupts.c: the C API. Each function is given by the          *)
(* registers, or the callbacks, after it.                                  *)

\* only ISCn0 is cleared: REG &= ~(0x01 << n*2)
ClearFieldLowBit(reg, fieldNumber) ==
    ToUint8(BitAnd(reg, BitNot(ShiftLeft(1, fieldNumber * 2))))

\* REG &= ~(0x03 << n*2);
ClearField(reg, fieldNumber) ==
    ToUint8(BitAnd(reg, BitNot(ShiftLeft(3, fieldNumber * 2))))

\* REG |= (extIntEventType << n*2);
OrField(reg, fieldNumber, bits) ==
    ToUint8(BitOr(reg, ShiftLeft(bits, fieldNumber * 2)))

\* the second statement alone: the new bits are or-ed into the old field
WriteFieldNoClear(reg, fieldNumber, bits) ==
    ToUint8(BitOr(reg, ShiftLeft(bits, fieldNumber * 2)))

\* REG &= ~(0x03 << n*2);  REG |= (extIntEventType << n*2);
WriteField(reg, fieldNumber, bits) ==
    LET cleared == ToUint8(BitAnd(reg, BitNot(ShiftLeft(3, fieldNumber * 2))))
    IN  ToUint8(BitOr(cleared, ShiftLeft(bits, fieldNumber * 2)))

\* EICRA and EICRB after setExtIntEventType
setExtIntEventType(extIntNumber, extIntEventType) ==
    LET type == BitAnd(extIntEventType, 3)
    IN  IF extIntNumber >= EXT_INT_COUNT
        THEN [EICRA |-> EICRA, EICRB |-> EICRB]
        ELSE IF extIntNumber < 4
        THEN [EICRA |-> WriteField(EICRA, extIntNumber, type), EICRB |-> EICRB]
        ELSE IF chip.eicrb /\ extIntNumber < 8
        THEN [EICRA |-> EICRA,
              EICRB |-> WriteField(EICRB, extIntNumber - 4, type)]
        ELSE [EICRA |-> EICRA, EICRB |-> EICRB]

\* the slot of INT0 is written, whatever the line number
attachExtIntCallbackOfINT0(extIntNumber, callback) ==
    IF extIntNumber >= EXT_INT_COUNT THEN callbacks
    ELSE [callbacks EXCEPT ![0] = callback]

\* only the low byte of the pointer is written
attachExtIntCallbackLowByte(extIntNumber, callback) ==
    IF extIntNumber >= EXT_INT_COUNT THEN callbacks
    ELSE [callbacks EXCEPT ![extIntNumber].lo = callback.lo]

\* callbacks after attachExtIntCallback
attachExtIntCallback(extIntNumber, callback) ==
    IF extIntNumber >= EXT_INT_COUNT THEN callbacks
    ELSE [callbacks EXCEPT ![extIntNumber] = callback]

\* callbacks after detachExtIntCallback
detachExtIntCallback(extIntNumber) ==
    IF extIntNumber >= EXT_INT_COUNT THEN callbacks
    ELSE [callbacks EXCEPT ![extIntNumber] = "NULL"]

\* the assignment in place of the or: the other enable bits are lost
enableExtIntAssign(extIntNumber) ==
    IF extIntNumber >= EXT_INT_COUNT THEN EIMSK
    ELSE ToUint8(ShiftLeft(1, extIntNumber))

\* without the test of the line number against EXT_INT_COUNT
enableExtIntUnchecked(extIntNumber) ==
    ToUint8(BitOr(EIMSK, ShiftLeft(1, extIntNumber)))

\* EIMSK after enableExtInt
enableExtInt(extIntNumber) ==
    IF extIntNumber >= EXT_INT_COUNT THEN EIMSK
    ELSE ToUint8(BitOr(EIMSK, ShiftLeft(1, extIntNumber)))

\* the mask is left as it is: nothing is disabled
disableExtIntNothing(extIntNumber) == EIMSK

\* EIMSK after disableExtInt
disableExtInt(extIntNumber) ==
    IF extIntNumber >= EXT_INT_COUNT THEN EIMSK
    ELSE ToUint8(BitAnd(EIMSK, BitNot(ShiftLeft(1, extIntNumber))))

\* EIFR after a write: a flag is cleared by writing 1 to it, writing 0 to
\* a flag leaves it as it is
WriteOneToClear(flags, written) == BitAnd(flags, 255 - written)

\* the flag is written as 0, as for an ordinary bit: it stays pending
clearPendingExtIntEventAndNot(extIntNumber) ==
    IF extIntNumber >= EXT_INT_COUNT THEN EIFR
    ELSE WriteOneToClear(EIFR,
             ToUint8(BitAnd(EIFR, BitNot(ShiftLeft(1, extIntNumber)))))

\* EIFR after clearPendingExtIntEvent: EIFR |= (0x01 << extIntNumber) reads
\* EIFR and writes back what it read, or-ed with the bit
clearPendingExtIntEvent(extIntNumber) ==
    IF extIntNumber >= EXT_INT_COUNT THEN EIFR
    ELSE WriteOneToClear(EIFR,
             ToUint8(BitOr(EIFR, ShiftLeft(1, extIntNumber))))

\* the handler of every line reads the slot of INT0
ISRCallbackOfINT0(line) == callbacks[0]

\* ISR(INTn_vect): the callback the handler of a line calls, if not NULL
ISRCallback(line) == callbacks[line]

-----------------------------------------------------------------------------
(* The interrupt logic of the AVR *)

\* the line has a pending event
Flag(line) == BitAt(EIFR, line) = 1

\* the line is enabled
Enabled(line) == BitAt(EIMSK, line) = 1

\* the handler of the line is due
Due(line) == Flag(line) /\ Enabled(line)

-----------------------------------------------------------------------------
(* The program on the external interrupts: it works on the lines intN and  *)
(* intM, from main and from the callbacks.                                 *)

LineArgs   == {intN, intM}
RealLines  == {i \in LineArgs : i < chip.lines}
TypeArgs   == 0..MaxTypeArg \cup {255}
Callbacks  == {"cb1", "cb2"}

\* the program is in main, or in a callback that a handler has called
CanCall == ~isr.active \/ isr.callback # "NULL"

InitLines ==
    /\ intN \in 0..MaxLineArg
    /\ intN <= chip.lines
    /\ intM \in 0..(chip.lines - 1)
    /\ intM # intN
    /\ intM - intN <= MaxLineGap
    /\ intN - intM <= MaxLineGap

EventTypeCall(lines, types) ==
    \E n \in lines, t \in types :
        /\ CanCall
        /\ outOfRange' = (outOfRange \/ n >= chip.lines)
        /\ EICRA' = setExtIntEventType(n, t).EICRA
        /\ EICRB' = setExtIntEventType(n, t).EICRB
        /\ UNCHANGED <<stepVars, chip, shift16, gpioVars, call, readCall, ret, EIMSK, EIFR,
                       callbacks, sregI, isr, intN, intM, registered,
                       latched, disabledLines>>

AttachCall(n, cb) ==
    /\ CanCall
    /\ outOfRange' = (outOfRange \/ n >= chip.lines)
    /\ callbacks' = attachExtIntCallback(n, cb)
    /\ registered' = IF n < chip.lines THEN [registered EXCEPT ![n] = cb]
                                       ELSE registered
    /\ UNCHANGED <<stepVars, chip, shift16, gpioVars, call, readCall, ret, EICRA, EICRB,
                   EIMSK,
                   EIFR, sregI, isr, intN, intM, latched, disabledLines>>

DetachCall(n) ==
    /\ CanCall
    /\ outOfRange' = (outOfRange \/ n >= chip.lines)
    /\ callbacks' = detachExtIntCallback(n)
    /\ registered' = IF n < chip.lines THEN [registered EXCEPT ![n] = "NULL"]
                                       ELSE registered
    /\ UNCHANGED <<stepVars, chip, shift16, gpioVars, call, readCall, ret, EICRA, EICRB,
                   EIMSK,
                   EIFR, sregI, isr, intN, intM, latched, disabledLines>>

EnableCall(n) ==
    /\ CanCall
    /\ outOfRange' = (outOfRange \/ n >= chip.lines)
    /\ EIMSK' = enableExtInt(n)
    /\ disabledLines' = disabledLines \ {n}
    /\ UNCHANGED <<stepVars, chip, shift16, gpioVars, call, readCall, ret, EICRA, EICRB, EIFR,
                   callbacks, sregI, isr, intN, intM, registered, latched>>

DisableCall(n) ==
    /\ CanCall
    /\ outOfRange' = (outOfRange \/ n >= chip.lines)
    /\ EIMSK' = disableExtInt(n)
    /\ disabledLines' = IF n < chip.lines THEN disabledLines \cup {n}
                                          ELSE disabledLines
    /\ UNCHANGED <<stepVars, chip, shift16, gpioVars, call, readCall, ret, EICRA, EICRB, EIFR,
                   callbacks, sregI, isr, intN, intM, registered, latched>>

ClearPendingCall(n) ==
    /\ CanCall
    /\ outOfRange' = (outOfRange \/ n >= chip.lines)
    /\ EIFR' = clearPendingExtIntEvent(n)
    /\ latched' = IF n < chip.lines
                   THEN [latched EXCEPT ![n] =
                            IF @ \in {"disabled", "discarded"}
                            THEN "discarded" ELSE "no"]
                   ELSE latched
    /\ UNCHANGED <<stepVars, chip, shift16, gpioVars, call, readCall, ret, EICRA, EICRB,
                   EIMSK,
                   callbacks, sregI, isr, intN, intM, registered,
                   disabledLines>>

\* allowEnabledInterrupts(), sei, in main
AllowEnabledInterrupts ==
    /\ ~isr.active
    /\ ~sregI
    /\ sregI' = TRUE
    /\ UNCHANGED <<objVars, stepVars, chip, shift16, gpioVars, call, readCall, ret, EICRA, EICRB,
                   EIMSK,
                   EIFR, callbacks, isr, intN, intM, ghostVars>>

\* blockAllInterrupts(), cli, in main
BlockAllInterrupts ==
    /\ ~isr.active
    /\ sregI
    /\ sregI' = FALSE
    /\ UNCHANGED <<objVars, stepVars, chip, shift16, gpioVars, call, readCall, ret, EICRA, EICRB,
                   EIMSK,
                   EIFR, callbacks, isr, intN, intM, ghostVars>>

\* an interrupt event on the pin of a line sets the flag of the line,
\* enabled or not
InterruptEvent(line) ==
    /\ EIFR' = BitOr(EIFR, 2 ^ line)
    /\ latched' = [latched EXCEPT ![line] =
                      IF @ = "disabled" \/ ~Enabled(line) THEN "disabled"
                      ELSE IF @ \in {"enabled", "merged"} THEN "merged"
                      ELSE "enabled"]
    /\ UNCHANGED <<objVars, stepVars, chip, shift16, gpioVars, call, readCall, ret, EICRA, EICRB,
                   EIMSK,
                   callbacks, sregI, isr, intN, intM, registered,
                   disabledLines, outOfRange>>

\* the CPU serves the due line of the lowest number: it clears the flag,
\* blocks the interrupts and runs the handler, which calls the callback
Dispatch(line) ==
    /\ sregI
    /\ ~isr.active
    /\ Due(line)
    /\ \A j \in 0..(chip.lines - 1) : j < line => ~Due(j)
    /\ EIFR' = BitAnd(EIFR, 255 - 2 ^ line)
    /\ sregI' = FALSE
    /\ isr' = [active |-> TRUE, line |-> line, callback |-> ISRCallback(line)]
    /\ latched' = [latched EXCEPT ![line] = "no"]
    /\ UNCHANGED <<objVars, stepVars, chip, shift16, gpioVars, call, readCall, ret, EICRA, EICRB,
                   EIMSK,
                   callbacks, intN, intM, registered, disabledLines,
                   outOfRange>>

\* the callback and the handler return, reti allows the interrupts again
ReturnFromInterrupt ==
    /\ isr.active
    /\ isr' = NoIsr
    /\ sregI' = TRUE
    /\ UNCHANGED <<objVars, stepVars, chip, shift16, gpioVars, call, readCall, ret, EICRA, EICRB,
                   EIMSK,
                   EIFR, callbacks, intN, intM, ghostVars>>

SetExtIntEventType     ==
    EventTypeCall({intN}, {EXTINT_FALLING_EDGE}) /\ UNCHANGED objVars
AttachExtIntCallback   ==
    (\E n \in LineArgs, cb \in Callbacks : AttachCall(n, cb)) /\ UNCHANGED objVars
DetachExtIntCallback   == (\E n \in LineArgs : DetachCall(n)) /\ UNCHANGED objVars
EnableExtInt           == (\E n \in LineArgs : EnableCall(n)) /\ UNCHANGED objVars
DisableExtInt          == (\E n \in LineArgs : DisableCall(n)) /\ UNCHANGED objVars
ClearPendingExtIntEvent ==
    (\E n \in LineArgs : ClearPendingCall(n)) /\ UNCHANGED objVars
Event                  == \E line \in RealLines : InterruptEvent(line)
Interrupt              == \E line \in RealLines : Dispatch(line)

Next ==
    \/ SetExtIntEventType
    \/ AttachExtIntCallback
    \/ DetachExtIntCallback
    \/ EnableExtInt
    \/ DisableExtInt
    \/ ClearPendingExtIntEvent
    \/ AllowEnabledInterrupts
    \/ BlockAllInterrupts
    \/ Event
    \/ Interrupt
    \/ ReturnFromInterrupt

\* the GPIO registers after reset, no GPIO call
ResetGPIO ==
    /\ DDR = [p \in Ports |-> 0]
    /\ PORT = [p \in Ports |-> 0]
    /\ EXT = [p \in Ports |-> 0]
    /\ DDR0 = DDR
    /\ PORT0 = PORT
    /\ gpioPc = "idle"
    /\ shift16 = "zero"
    /\ call = NoCall
    /\ readCall = NoRead
    /\ ret = 0

Init ==
    /\ NoObject
    /\ MainIdle
    /\ chip \in Chips
    /\ ResetGPIO
    /\ ResetIrq
    /\ InitLines

Spec == Init /\ [][Next]_vars

\* the program that only configures the event types of its lines
ConfigureEventTypes == EventTypeCall(LineArgs, TypeArgs) /\ UNCHANGED objVars

SpecEICR == Init /\ [][ConfigureEventTypes]_vars

\* the program that configures its interrupt lines, the first and the last
\* line of the chip, and then makes one GPIO call
InitFrame ==
    /\ NoObject
    /\ MainIdle
    /\ chip \in Chips
    /\ InitGPIO
    /\ call = NoCall
    /\ readCall = NoRead
    /\ ret = 0
    /\ ResetIrq
    /\ intN = 0
    /\ intM = chip.lines - 1

\* the GPIO call is still to come
BeforeGPIO == gpioPc = "idle"

\* the lines are configured: the last line is enabled, both have their
\* callbacks, an event is pending on the first line, which was never
\* enabled, and its sense control field is written
LinesConfigured ==
    /\ BeforeGPIO
    /\ EIMSK = 2 ^ intM
    /\ EIFR = 2 ^ intN
    /\ EICRA # 0
    /\ callbacks[intN] = "cb1"
    /\ callbacks[intM] = "cb2"
    /\ intN \in disabledLines
    /\ latched[intM] = "no"

NextFrame ==
    \/ BeforeGPIO /\ SetExtIntEventType
    \/ BeforeGPIO /\ AttachExtIntCallback
    \/ BeforeGPIO /\ DetachExtIntCallback
    \/ BeforeGPIO /\ EnableExtInt
    \/ BeforeGPIO /\ DisableExtInt
    \/ BeforeGPIO /\ ClearPendingExtIntEvent
    \/ BeforeGPIO /\ Event
    \/ LinesConfigured /\ ConstructGPIOPin
    \/ LinesConfigured /\ SetPinMode
    \/ LinesConfigured /\ SetPinPullup
    \/ LinesConfigured /\ WritePin
    \/ LinesConfigured /\ TogglePin
    \/ LinesConfigured /\ ReadPin
    \/ LinesConfigured /\ SetPortMode
    \/ LinesConfigured /\ SetPortPullup
    \/ LinesConfigured /\ WritePort
    \/ LinesConfigured /\ TogglePort
    \/ LinesConfigured /\ ReadPort

SpecFrame == InitFrame /\ [][NextFrame]_vars

-----------------------------------------------------------------------------
(* ExternalInterrupts.c: the C++ API. The constructor of ExtInt runs in     *)
(* main, statement by statement; between two statements an interrupt can   *)
(* be served. The lines are in some state that earlier code has left.      *)

\* the chips by their number of external interrupts, INT0 .. INT(k-1)
LineCounts == 1..8
ChipOfLines(k) ==
    [name |-> "lines", ports |-> ATmega328P.ports, lines |-> k, eicrb |-> k > 4]

\* the arguments passed to the constructor
CtorTypes     == {EXTINT_LOW_LEVEL_ACTIVE, EXTINT_FALLING_EDGE, 255}
CtorCallbacks == {"NULL", "cb1"}

\* the line of the constructor is the last line of the chip or the first
\* number that is no line; earlier code has left
\* rising edges in the sense control, a callback or none in the slots, the
\* lines enabled or not and events pending or not, and no handler is due
InitCtor ==
    /\ chip \in { ChipOfLines(k) : k \in LineCounts }
    /\ ResetGPIO
    /\ NoObject
    /\ MainIdle
    /\ intM = chip.lines - 1
    /\ intN \in 0..MaxLineArg
    /\ intN <= chip.lines
    /\ intN >= intM
    /\ EICRA = 255
    /\ EICRB = IF chip.eicrb THEN 255 ELSE 0
    /\ \E mask \in BOOLEAN, flag \in BOOLEAN, cb \in {"NULL", "cb2"} :
          /\ EIMSK = IF mask THEN 2 ^ chip.lines - 1 ELSE 0
          /\ EIFR = IF flag THEN 2 ^ chip.lines - 1 ELSE 0
          /\ callbacks = [i \in 0..(chip.lines - 1) |-> cb]
          /\ registered = callbacks
          /\ latched = [i \in 0..(chip.lines - 1) |->
                            IF flag THEN "before" ELSE "no"]
          /\ disabledLines = IF mask THEN {} ELSE 0..(chip.lines - 1)
          /\ sregI \in IF mask /\ flag THEN {FALSE} ELSE BOOLEAN
    /\ isr = NoIsr
    /\ outOfRange = FALSE

\* ExtInt::ExtInt up to its first call: an invalid object gets the line
\* number 0xFF and nothing else is done
ExtIntBegin ==
    \E t \in CtorTypes, cb \in CtorCallbacks, en \in BOOLEAN :
        /\ ctor.pc = "none"
        /\ ~isr.active
        /\ _extIntNumber' = IF intN >= EXT_INT_COUNT THEN 255 ELSE intN
        /\ ctor' = [pc       |-> IF intN >= EXT_INT_COUNT
                                  THEN "done" ELSE "setExtIntEventType",
                    type     |-> t,
                    callback |-> cb,
                    enabled  |-> en,
                    pending  |-> intN < EXT_INT_COUNT /\ Flag(intN)]
        /\ UNCHANGED <<stepVars, chip, shift16, gpioVars, call, readCall, ret,
                       irqVars, intN, intM, ghostVars>>

\* the statement the constructor is at
CtorAt(pc) == ctor.pc = pc /\ ~isr.active

\* the constructor goes on to its next statement
CtorTo(pc) == ctor' = [ctor EXCEPT !.pc = pc] /\ UNCHANGED _extIntNumber

\* extIntEventType &= 0x03;  setExtIntEventType( extIntEventType );
ExtIntSetExtIntEventType ==
    /\ CtorAt("setExtIntEventType")
    /\ EventTypeCall({_extIntNumber}, {BitAnd(ctor.type, 3)})
    /\ CtorTo("attachExtIntCallback")

\* if (callback) attachExtIntCallback(callback); else detachExtIntCallback();
ExtIntAttachExtIntCallback ==
    /\ CtorAt("attachExtIntCallback")
    /\ IF ctor.callback # "NULL"
       THEN AttachCall(_extIntNumber, ctor.callback)
       ELSE DetachCall(_extIntNumber)
    /\ CtorTo("clearPendingExtIntEvent")

\* the call is left out: what is pending stays pending
ExtIntNoClearPendingExtIntEvent ==
    /\ CtorAt("clearPendingExtIntEvent")
    /\ CtorTo("enableExtInt")
    /\ UNCHANGED <<stepVars, chip, shift16, gpioVars, call, readCall, ret,
                   irqVars, intN, intM, ghostVars>>

\* clearPendingExtIntEvent();
ExtIntClearPendingExtIntEvent ==
    /\ CtorAt("clearPendingExtIntEvent")
    /\ ClearPendingCall(_extIntNumber)
    /\ CtorTo("enableExtInt")

\* if (enabled) enableExtInt(); else disableExtInt();
ExtIntEnableExtInt ==
    /\ CtorAt("enableExtInt")
    /\ IF ctor.enabled THEN EnableCall(_extIntNumber)
                       ELSE DisableCall(_extIntNumber)
    /\ CtorTo("done")

\* the program has its object and calls a method of it
Constructed == ctor.pc = "done"

MethodSetExtIntEventType ==
    /\ Constructed
    /\ EventTypeCall({_extIntNumber}, {EXTINT_ANY_EDGE})
    /\ UNCHANGED objVars

MethodAttachExtIntCallback ==
    /\ Constructed
    /\ AttachCall(_extIntNumber, "cb1")
    /\ UNCHANGED objVars

MethodDetachExtIntCallback ==
    /\ Constructed
    /\ DetachCall(_extIntNumber)
    /\ UNCHANGED objVars

MethodEnableExtInt ==
    /\ Constructed
    /\ EnableCall(_extIntNumber)
    /\ UNCHANGED objVars

MethodDisableExtInt ==
    /\ Constructed
    /\ DisableCall(_extIntNumber)
    /\ UNCHANGED objVars

MethodClearPendingExtIntEvent ==
    /\ Constructed
    /\ ClearPendingCall(_extIntNumber)
    /\ UNCHANGED objVars

\* main allows the interrupts after the construction
AllowAfterConstruction == Constructed /\ AllowEnabledInterrupts

\* an interrupt event while the constructor runs or after it
EventSinceConstruction == ctor.pc # "none" /\ Event

NextCtor ==
    \/ ExtIntBegin
    \/ ExtIntSetExtIntEventType
    \/ ExtIntAttachExtIntCallback
    \/ ExtIntClearPendingExtIntEvent
    \/ ExtIntEnableExtInt
    \/ MethodSetExtIntEventType
    \/ MethodAttachExtIntCallback
    \/ MethodDetachExtIntCallback
    \/ MethodEnableExtInt
    \/ MethodDisableExtInt
    \/ MethodClearPendingExtIntEvent
    \/ AllowAfterConstruction
    \/ EventSinceConstruction
    \/ Interrupt
    \/ ReturnFromInterrupt

SpecCtor == InitCtor /\ [][NextCtor]_vars

-----------------------------------------------------------------------------
(* Main and the interrupts, access by access. A statement REG op= x of the *)
(* library reads the register into a CPU register and writes the result   *)
(* back; the bit and the mask are variables, so that the compiler has no   *)
(* single instruction for it. A pointer of callbacks[] is two bytes, each  *)
(* written by an instruction of its own. Between two instructions of main  *)
(* an interrupt can be served; the handler and its callback are not        *)
(* interrupted, so that a function the callback calls runs as a whole.     *)

\* how many library functions main calls, one after the other
MaxMainOps == 2

\* a pointer to a callback function, by its low and its high byte
Ptr(cb) == [lo |-> cb, hi |-> cb]

\* the two bytes are of one pointer
Whole(ptr) == ptr.lo = ptr.hi

\* the port and the pins the program works on
StepPort    == port_B
MainPin     == 0
CallbackPin == 1

\* the value and the mask main passes: the mask selects bits to set and
\* bits to clear
StepValue == 85
StepMask  == 15

\* the event types main passes
StepTypes == {EXTINT_FALLING_EDGE, 255}

Op(fn, port, pin, val, mask, line, cb) ==
    [fn |-> fn, port |-> port, pin |-> pin, val |-> val, mask |-> mask,
     line |-> line, cb |-> cb, nr |-> 0, old |-> 0, during |-> "none"]

PortFns == {"setPortMode", "setPortPullup", "writePort"}
MaskFns == {"enableExtInt", "disableExtInt"}
SlotFns == {"attachExtIntCallback", "detachExtIntCallback"}

\* the calls main makes
MainOps ==
    {Op("togglePin", StepPort, MainPin, 0, 0, 0, "NULL")}
    \cup {Op(fn, StepPort, 0, StepValue, StepMask, 0, "NULL") : fn \in PortFns}
    \cup {Op("setExtIntEventType", 0, 0, t, 0, intN, "NULL") : t \in StepTypes}
    \cup {Op(fn, 0, 0, 0, 0, intN, "NULL") : fn \in MaskFns}
    \cup {Op("attachExtIntCallback", 0, 0, 0, 0, intN, "cb3"),
          Op("detachExtIntCallback", 0, 0, 0, 0, intN, "NULL")}

\* the calls a callback makes
CallbackOps ==
    {Op("writePin", StepPort, CallbackPin, HIGH_LEVEL, 0, 0, "NULL"),
     Op("togglePin", StepPort, CallbackPin, 0, 0, 0, "NULL")}
    \cup {Op(fn, 0, 0, 0, 0, intM, "NULL") : fn \in MaskFns}
    \cup {Op("enableExtInt", 0, 0, 0, 0, intN, "NULL"),
          Op("attachExtIntCallback", 0, 0, 0, 0, intN, "cb2")}

\* the function does something: its port, or its line, exists
Valid(op) ==
    CASE op.fn = "togglePin" ->
             op.port \in CasesOf_togglePORTBit /\ Defined(op.port)
      [] op.fn \in PortFns -> op.port \in Ports /\ Defined(op.port)
      [] op.fn = "setExtIntEventType" ->
             /\ op.line < EXT_INT_COUNT
             /\ op.line < 4 \/ (chip.eicrb /\ op.line < 8)
      [] op.fn \in MaskFns \cup SlotFns -> op.line < EXT_INT_COUNT
      [] OTHER -> FALSE

\* the register accesses of the function, in their order
Accesses(op) ==
    CASE ~Valid(op) -> << >>
      [] op.fn = "togglePin" -> <<"load", "store">>
      [] op.fn \in PortFns -> <<"load", "store", "load", "store">>
      [] op.fn = "setExtIntEventType" -> <<"load", "store", "load", "store">>
      [] op.fn \in MaskFns -> <<"load", "store">>
      [] op.fn \in SlotFns -> <<"storeLo", "storeHi">>

\* the register the function works on
TargetOf(op) ==
    CASE op.fn = "setPortMode" -> "DDR"
      [] op.fn \in {"togglePin", "writePin", "setPortPullup", "writePort"} ->
             "PORT"
      [] op.fn = "setExtIntEventType" ->
             IF op.line < 4 THEN "EICRA" ELSE "EICRB"
      [] op.fn \in MaskFns -> "EIMSK"
      [] OTHER -> "callbacks"

\* what the register of the function holds
Target(op) ==
    CASE TargetOf(op) = "DDR" -> DDR[op.port]
      [] TargetOf(op) = "PORT" -> PORT[op.port]
      [] TargetOf(op) = "EICRA" -> EICRA
      [] TargetOf(op) = "EICRB" -> EICRB
      [] TargetOf(op) = "EIMSK" -> EIMSK
      [] OTHER -> 0

\* what the access number pc of the function stores, t being loaded
Stored(op, pc, t) ==
    CASE op.fn = "togglePin" -> ToggleBit(t, op.pin)
      [] op.fn \in PortFns /\ pc = 2 -> SetMaskedBits(t, op.val, op.mask)
      [] op.fn \in PortFns /\ pc = 4 -> ClearMaskedBits(t, op.val, op.mask)
      [] op.fn = "setExtIntEventType" /\ pc = 2 -> ClearField(t, op.line % 4)
      [] op.fn = "setExtIntEventType" /\ pc = 4 ->
             OrField(t, op.line % 4, BitAnd(op.val, 3))
      [] op.fn = "enableExtInt" -> SetBit(t, op.line)
      [] op.fn = "disableExtInt" -> ClearBit(t, op.line)

\* main has executed the function it called
Finished == mainPc = Len(Accesses(mainOp))

\* the function of main that is in execution, if any
Running == IF mainOp.fn # "none" /\ ~Finished THEN mainOp.fn ELSE "none"

\* attachExtIntCallback and detachExtIntCallback are called for disabled
\* lines only
MayCall(op) == op.fn \in SlotFns => ~Enabled(op.line)

\* the lines left enabled by a store to EIMSK
DisabledAfter(op) ==
    CASE op.fn = "enableExtInt" -> disabledLines \ {op.line}
      [] op.fn = "disableExtInt" -> disabledLines \cup {op.line}
      [] OTHER -> disabledLines

\* earlier code has set the ports, rising edges in the sense control and a
\* callback for both lines, has enabled one of the lines, and allows the
\* interrupts
InitStep ==
    /\ chip \in Chips
    /\ DDR = Registers(chip, RegPatterns[1][1])
    /\ PORT = Registers(chip, RegPatterns[1][2])
    /\ EXT = Registers(chip, RegPatterns[1][3])
    /\ DDR0 = DDR
    /\ PORT0 = PORT
    /\ gpioPc = "idle"
    /\ shift16 = "zero"
    /\ call = NoCall
    /\ readCall = NoRead
    /\ ret = 0
    /\ NoObject
    /\ MainIdle
    /\ intN \in {0, chip.lines - 1}
    /\ intM = chip.lines - 1 - intN
    /\ EICRA = 255
    /\ EICRB = IF chip.eicrb THEN 255 ELSE 0
    /\ EIMSK \in {2 ^ intM, 2 ^ intN}
    /\ EIFR = 0
    /\ callbacks = [i \in 0..(chip.lines - 1) |-> Ptr("cb1")]
    /\ sregI = TRUE
    /\ isr = NoIsr
    /\ registered = callbacks
    /\ latched = [i \in 0..(chip.lines - 1) |-> "no"]
    /\ disabledLines = {i \in 0..(chip.lines - 1) : ~Enabled(i)}
    /\ outOfRange = FALSE

\* main calls a library function
MainCalls ==
    /\ ~isr.active
    /\ mainOp.fn = "none" \/ Finished
    /\ mainOp.nr < MaxMainOps
    /\ \E op \in MainOps :
          /\ MayCall(op)
          /\ mainOp' = [op EXCEPT !.nr = mainOp.nr + 1, !.old = Target(op)]
    /\ mainPc' = 0
    /\ UNCHANGED <<objVars, tmp, cbOp, chip, shift16, gpioVars, call, readCall,
                   ret, irqVars, intN, intM, ghostVars>>

\* main reads the register of the function
MainLoads ==
    /\ ~isr.active
    /\ ~Finished
    /\ Accesses(mainOp)[mainPc + 1] = "load"
    /\ tmp' = Target(mainOp)
    /\ mainPc' = mainPc + 1
    /\ UNCHANGED <<objVars, mainOp, cbOp, chip, shift16, gpioVars, call,
                   readCall, ret, irqVars, intN, intM, ghostVars>>

\* main writes the register of the function
MainStores ==
    /\ ~isr.active
    /\ ~Finished
    /\ Accesses(mainOp)[mainPc + 1] = "store"
    /\ LET reg == TargetOf(mainOp)
           v   == Stored(mainOp, mainPc + 1, tmp)
       IN  /\ DDR'   = IF reg = "DDR"  THEN [DDR EXCEPT ![mainOp.port] = v]
                                       ELSE DDR
           /\ PORT'  = IF reg = "PORT" THEN [PORT EXCEPT ![mainOp.port] = v]
                                       ELSE PORT
           /\ EICRA' = IF reg = "EICRA" THEN v ELSE EICRA
           /\ EICRB' = IF reg = "EICRB" THEN v ELSE EICRB
           /\ EIMSK' = IF reg = "EIMSK" THEN v ELSE EIMSK
    /\ disabledLines' = DisabledAfter(mainOp)
    /\ mainPc' = mainPc + 1
    /\ UNCHANGED <<objVars, mainOp, tmp, cbOp, chip, shift16, EXT, DDR0, PORT0,
                   gpioPc, call, readCall, ret, EIFR, callbacks, sregI, isr,
                   intN, intM, registered, latched, outOfRange>>

\* main writes one byte of the pointer callbacks[extIntNumber]
MainStoresByte ==
    /\ ~isr.active
    /\ ~Finished
    /\ Accesses(mainOp)[mainPc + 1] \in {"storeLo", "storeHi"}
    /\ callbacks' =
           IF Accesses(mainOp)[mainPc + 1] = "storeLo"
           THEN [callbacks EXCEPT ![mainOp.line].lo = mainOp.cb]
           ELSE [callbacks EXCEPT ![mainOp.line].hi = mainOp.cb]
    /\ registered' = [registered EXCEPT ![mainOp.line] = Ptr(mainOp.cb)]
    /\ mainPc' = mainPc + 1
    /\ UNCHANGED <<objVars, mainOp, tmp, cbOp, chip, shift16, gpioVars, call,
                   readCall, ret, EICRA, EICRB, EIMSK, EIFR, sregI, isr, intN,
                   intM, latched, disabledLines, outOfRange>>

\* the callback that the handler has called calls a library function
CallbackCalls ==
    /\ isr.active
    /\ isr.callback # Ptr("NULL")
    /\ Whole(isr.callback)
    /\ cbOp = NoOp
    /\ \E op \in CallbackOps :
          /\ MayCall(op)
          /\ cbOp' = [op EXCEPT !.nr = mainOp.nr, !.old = Target(op),
                                !.during = Running]
          /\ PORT' = CASE op.fn = "writePin" -> writePin(op.port, op.pin, op.val)
                       [] op.fn = "togglePin" -> togglePin(op.port, op.pin)
                       [] OTHER -> PORT
          /\ EIMSK' = CASE op.fn = "enableExtInt" -> enableExtInt(op.line)
                        [] op.fn = "disableExtInt" -> disableExtInt(op.line)
                        [] OTHER -> EIMSK
          /\ callbacks' = IF op.fn = "attachExtIntCallback"
                          THEN attachExtIntCallback(op.line, Ptr(op.cb))
                          ELSE callbacks
          /\ registered' = IF op.fn = "attachExtIntCallback"
                           THEN [registered EXCEPT ![op.line] = Ptr(op.cb)]
                           ELSE registered
          /\ disabledLines' = DisabledAfter(op)
    /\ UNCHANGED <<objVars, mainOp, mainPc, tmp, chip, shift16, DDR, EXT, DDR0,
                   PORT0, gpioPc, call, readCall, ret, EICRA, EICRB, EIFR,
                   sregI, isr, intN, intM, latched, outOfRange>>

\* an interrupt event on the pin of one of the two lines, no earlier event
\* waiting
EventOfStep ==
    \E line \in {intN, intM} : ~Flag(line) /\ InterruptEvent(line)

NextStep ==
    \/ MainCalls
    \/ MainLoads
    \/ MainStores
    \/ MainStoresByte
    \/ CallbackCalls
    \/ EventOfStep
    \/ Interrupt
    \/ ReturnFromInterrupt

SpecStep == InitStep /\ [][NextStep]_vars

-----------------------------------------------------------------------------
(* Properties of the external interrupts *)

Field(reg, fieldNumber) == (reg \div (4 ^ fieldNumber)) % 4

\* the handler of the line starts in this step
Starts(line) == ~isr.active /\ isr'.active /\ isr'.line = line

\* C4: for every valid line n and every 8-bit type value t,
\* setExtIntEventType(n, t) leaves t AND 3 in the 2-bit field (n mod 4) of
\* EICRA (n in 0..3) or EICRB (n in 4..7), whatever the field held before,
\* and leaves every other field of that register and the whole other
\* register as they were.
C4_EventTypeWritesOneField ==
    \A n \in RealLines, t \in TypeArgs :
        LET after  == setExtIntEventType(n, t)
            inA    == n < 4
            before == IF inA THEN EICRA ELSE EICRB
            reg    == IF inA THEN after.EICRA ELSE after.EICRB
            other  == IF inA THEN after.EICRB = EICRB ELSE after.EICRA = EICRA
        IN  /\ Field(reg, n % 4) = t % 4
            /\ \A k \in 0..3 : k # n % 4 => Field(reg, k) = Field(before, k)
            /\ other

\* the fields of INT3 and INT4 have been written over other codes, and the
\* field of INT3 holds the falling edge
C4_Witness ==
    /\ chip = ATmega2560
    /\ LineArgs = {3, 4}
    /\ Field(EICRA, 3) = EXTINT_FALLING_EDGE
    /\ Field(EICRB, 0) = EXTINT_RISING_EDGE

\* C5: when the handler of line i starts, it calls the callback that was
\* attached to line i last, and no callback if none was attached or the
\* callback of i was detached last; never the callback of another line.
C5_HandlerCallsTheRegisteredCallback ==
    [][\A i \in RealLines : Starts(i) => isr'.callback = registered[i]]_vars

\* the handler of a line calls cb2, attached last, while the other line
\* holds cb1
C5_Witness ==
    /\ isr.active
    /\ isr.line = intN
    /\ isr.line # 0
    /\ isr.callback = "cb2"
    /\ registered[intN] = "cb2"
    /\ registered[intM] = "cb1"

\* C6: clearPendingExtIntEvent(n) clears the pending flag of line n and
\* leaves the pending flag of every other line m as it was.
C6_ClearPendingClearsOnlyItsFlag ==
    [][\A n \in RealLines :
          ClearPendingCall(n) =>
              /\ BitAt(EIFR', n) = 0
              /\ \A m \in 0..7 : m # n => BitAt(EIFR', m) = BitAt(EIFR, m)]_vars

\* C7: an event that came while line n was disabled and that no
\* clearPendingExtIntEvent(n) has cleared is still pending when the line is
\* enabled, so that the callback of n is due on enabling.
C7_LatchedEventIsDueOnEnable ==
    \A n \in RealLines :
        (latched[n] = "disabled" /\ Enabled(n)) => Flag(n)

\* C8: the handler of line n starts only on an event of n that came after
\* the last clearPendingExtIntEvent(n): after a clear and an enable with no
\* event in between, the callback is not called until a new event.
C8_NoCallbackAfterClearPending ==
    [][\A n \in RealLines :
          Starts(n) => latched[n] \in {"disabled", "enabled", "merged"}]_vars

\* events latched while line n was disabled have been cleared, the line is
\* enabled with its callback and the interrupts are allowed: nothing due
C8_Witness ==
    /\ latched[intM] = "discarded"
    /\ Enabled(intM)
    /\ registered[intM] = "cb1"
    /\ sregI
    /\ ~isr.active
    /\ ~Flag(intM)

C10_EnableDisableWriteOneMaskBit ==
    [][\A n \in RealLines :
          LET Frame == /\ \A m \in 0..7 :
                             m # n => BitAt(EIMSK', m) = BitAt(EIMSK, m)
                       /\ EIFR' = EIFR
                       /\ EICRA' = EICRA
                       /\ EICRB' = EICRB
                       /\ callbacks' = callbacks
              \* what no API call changes, tested before the calls are
              MainGoesOn == /\ isr' = isr
                            /\ sregI' = sregI
                            /\ registered' = registered
                            /\ latched' = latched
          IN  /\ (MainGoesOn /\ EnableCall(n)) =>
                     (BitAt(EIMSK', n) = 1 /\ Frame)
              /\ (MainGoesOn /\ DisableCall(n)) =>
                     (BitAt(EIMSK', n) = 0 /\ Frame)]_vars

\* both lines are enabled, one after the other, with an event pending, an
\* event type set and a callback attached
C10_Witness ==
    /\ Enabled(intN)
    /\ Enabled(intM)
    /\ EIFR # 0
    /\ EICRA + EICRB # 0
    /\ callbacks[intM] = "cb2"

\* a call of one of the six API functions with the line number n
ApiCall(n) ==
    \/ \E cb \in Callbacks : AttachCall(n, cb)
    \/ DetachCall(n)
    \/ EnableCall(n)
    \/ DisableCall(n)
    \/ ClearPendingCall(n)
    \/ EventTypeCall({n}, TypeArgs)

\* C17: for every line number n >= EXT_INT_COUNT, setExtIntEventType,
\* attachExtIntCallback, detachExtIntCallback, enableExtInt, disableExtInt
\* and clearPendingExtIntEvent change no register and no slot of
\* callbacks[]; callbacks[] is written at the indices 0..EXT_INT_COUNT-1
\* only.
C17_InvalidLineIsNoOp ==
    [][/\ \A n \in LineArgs \ RealLines :
             ApiCall(n) => /\ EICRA' = EICRA
                           /\ EICRB' = EICRB
                           /\ EIMSK' = EIMSK
                           /\ EIFR' = EIFR
                           /\ callbacks' = callbacks
       /\ DOMAIN callbacks' = 0..(EXT_INT_COUNT - 1)]_vars

\* the program has called the API with the line number EXT_INT_COUNT,
\* and with the last line of the chip, which is enabled with its callback
\* and an event pending
C17_Witness ==
    /\ outOfRange
    /\ intN = EXT_INT_COUNT
    /\ EIMSK = 2 ^ intM
    /\ EIFR = 2 ^ intM
    /\ callbacks[intM] = "cb1"

\* C20: while line n is enabled and the interrupts are allowed, every event
\* on n gets a handler execution of its own, the events that come while
\* the handler of n is running included: no event that came on the enabled
\* line during the handler has been merged with an earlier one that was
\* still waiting for its execution.
C20_EveryEventGetsAnExecution ==
    \A n \in RealLines :
        (isr.active /\ isr.line = n) => latched[n] # "merged"

\* the program makes its GPIO call in this step
GPIOCall == gpioPc = "idle" /\ gpioPc' # "idle"

\* C30: no GPIO function changes EICRA, EICRB, EIMSK, EIFR or callbacks[];
\* no function of the external interrupts changes a DDRx, PORTx or PINx;
\* attachExtIntCallback and detachExtIntCallback change only the slot of
\* their line, and setExtIntEventType changes neither EIMSK nor
\* callbacks[].
C30_SubsystemsKeepToTheirState ==
    [][LET \* what every call of the C API leaves as it is, tested first
           MainGoesOn == /\ gpioPc' = gpioPc
                         /\ isr' = isr
                         /\ sregI' = sregI
           SlotWritten == /\ MainGoesOn
                          /\ latched' = latched
                          /\ disabledLines' = disabledLines
           TypeWritten == SlotWritten /\ registered' = registered
       IN  /\ GPIOCall => /\ EICRA' = EICRA
                           /\ EICRB' = EICRB
                           /\ EIMSK' = EIMSK
                           /\ EIFR' = EIFR
                           /\ callbacks' = callbacks
           /\ \A n \in LineArgs :
                 /\ (MainGoesOn /\ ApiCall(n)) =>
                        /\ DDR' = DDR
                        /\ PORT' = PORT
                        /\ \A p \in Ports :
                               \/ <<DDR'[p], PORT'[p], EXT'[p]>>
                                      = <<DDR[p], PORT[p], EXT[p]>>
                               \/ PinLevels(DDR'[p], PORT'[p], EXT'[p]) = PIN(p)
                 /\ (SlotWritten /\ ((\E cb \in Callbacks : AttachCall(n, cb))
                                       \/ DetachCall(n))) =>
                        /\ \A k \in DOMAIN callbacks :
                               k # n => callbacks'[k] = callbacks[k]
                        /\ EICRA' = EICRA
                        /\ EICRB' = EICRB
                        /\ EIMSK' = EIMSK
                        /\ EIFR' = EIFR
                 /\ (TypeWritten /\ EventTypeCall({n}, TypeArgs)) =>
                        /\ EIMSK' = EIMSK
                        /\ callbacks' = callbacks]_vars

\* after the lines were configured, with a callback attached to the last
\* line and none to the first, the program has written a GPIO register
C30_Witness ==
    /\ gpioPc = "called"
    /\ ~NothingWritten
    /\ EIMSK = 2 ^ intM
    /\ EIFR # 0
    /\ EICRA # 0
    /\ callbacks[intM] = "cb2"
    /\ callbacks[intN] = "cb1"

\* the constructor or a method of the ExtInt object executes a statement
ExtIntStep ==
    \/ ExtIntBegin
    \/ ExtIntSetExtIntEventType
    \/ ExtIntAttachExtIntCallback
    \/ ExtIntClearPendingExtIntEvent
    \/ ExtIntEnableExtInt
    \/ MethodSetExtIntEventType
    \/ MethodAttachExtIntCallback
    \/ MethodDetachExtIntCallback
    \/ MethodEnableExtInt
    \/ MethodDisableExtInt
    \/ MethodClearPendingExtIntEvent

\* the sense control field of a line
FieldOfLine(n) == IF n < 4 THEN Field(EICRA, n) ELSE Field(EICRB, n - 4)

\* C21: when the constructor ExtInt(n, t, callback, enabled) of a valid
\* line n returns, the sense control field of n holds t AND 3, the slot
\* n of callbacks[] holds callback (NULL when NULL was passed, whatever was
\* attached before) and bit n of EIMSK is enabled; an event that was
\* pending on n when the constructor began never starts the handler of n:
\* it has been cleared before the line is enabled.
C21_ConstructorConfiguresItsLine ==
    [][\A n \in RealLines :
          /\ (ctor'.pc = "done" /\ ExtIntEnableExtInt /\ n = _extIntNumber) =>
                 /\ FieldOfLine(n)' = ctor.type % 4
                 /\ callbacks'[n] = ctor.callback
                 /\ (BitAt(EIMSK', n) = 1) = ctor.enabled
                 /\ latched'[n] # "before"
          /\ (Starts(n) /\ n = _extIntNumber) => latched[n] # "before"]_vars

\* an event was pending on the line, which had a callback, when it was
\* constructed with another callback, as enabled: the interrupts are
\* allowed now and nothing is due
C21_Witness ==
    /\ Constructed
    /\ _extIntNumber = intN
    /\ ctor.pending
    /\ ctor.enabled
    /\ ctor.type = 255
    /\ ctor.callback = "cb1"
    /\ registered[intN] = "cb1"
    /\ Enabled(intN)
    /\ sregI
    /\ ~isr.active
    /\ ~Flag(intN)

\* C22: the constructor of ExtInt with a line number n >= EXT_INT_COUNT
\* changes no register and no slot of callbacks[], and neither does any
\* method called on that object later, whatever the number of lines of the
\* chip (1 .. 8).
C22_InvalidObjectIsNoOp ==
    [][(intN \notin RealLines /\ ExtIntStep) =>
           /\ EICRA' = EICRA
           /\ EICRB' = EICRB
           /\ EIMSK' = EIMSK
           /\ EIFR' = EIFR
           /\ callbacks' = callbacks]_vars

\* the object of a line number that the chip, of three lines, does not
\* have; the lines of the chip are enabled with their callbacks and events
\* pending, and a method of the object has been called
C22_Witness ==
    /\ Constructed
    /\ intN = EXT_INT_COUNT
    /\ chip.lines = 3
    /\ _extIntNumber = 255
    /\ outOfRange
    /\ EIMSK = 7
    /\ EIFR = 7
    /\ callbacks[intM] = "cb2"

\* C29: from the moment the constructor ExtInt(n, t, callback, false)
\* begins, whatever state line n was in (enabled or not, with an event
\* pending or not), the handler of n does not call the callback passed
\* until the constructor has returned and enableExtInt(n) has been called.
C29_NotEnabledMeansNotCalled ==
    [][\A n \in RealLines :
          (/\ Starts(n)
           /\ n = _extIntNumber
           /\ ctor.pc # "none"
           /\ ~ctor.enabled
           /\ isr'.callback # "NULL"
           /\ isr'.callback = ctor.callback) =>
              (Constructed /\ n \notin disabledLines)]_vars

\* the callback has called its function while main was executing the
\* function it has now finished
Interrupted(fns) ==
    /\ mainOp.fn \in fns
    /\ Finished
    /\ ~isr.active
    /\ cbOp.nr = mainOp.nr
    /\ cbOp.during = mainOp.fn

\* the bit the function call has written
BitWritten(op) ==
    CASE op.fn = "togglePin" -> 1 - BitAt(op.old, op.pin)
      [] op.fn = "writePin" -> IF op.val = HIGH_LEVEL THEN 1 ELSE 0
      [] op.fn = "enableExtInt" -> 1
      [] op.fn = "disableExtInt" -> 0

\* C24: when a callback has changed another bit of PORTx by writePin or
\* togglePin while togglePin(port, pin) of main was executing, PORTx holds
\* both changes after both have completed: the bit of the callback as the
\* callback wrote it, the bit of main toggled.
C24_ToggleKeepsTheCallbacksChange ==
    (/\ Interrupted({"togglePin"})
     /\ cbOp.fn \in {"writePin", "togglePin"}
     /\ cbOp.port = mainOp.port
     /\ cbOp.pin # mainOp.pin) =>
        /\ BitAt(PORT[mainOp.port], cbOp.pin) = BitWritten(cbOp)
        /\ BitAt(PORT[mainOp.port], mainOp.pin) = BitWritten(mainOp)

\* C28: when a callback has enabled or disabled line m while enableExtInt(n)
\* or disableExtInt(n) of main was executing, n # m, then after both have
\* completed bit m of EIMSK is as the callback wrote it and bit n as main
\* wrote it.
C28_NoMaskUpdateIsLost ==
    (/\ Interrupted(MaskFns)
     /\ cbOp.fn \in MaskFns
     /\ cbOp.line # mainOp.line) =>
        /\ BitAt(EIMSK, cbOp.line) = BitWritten(cbOp)
        /\ BitAt(EIMSK, mainOp.line) = BitWritten(mainOp)

\* no callback has written the register of main's function since main
\* called it
Undisturbed ==
    \/ cbOp.fn = "none"
    \/ cbOp.nr # mainOp.nr
    \/ TargetOf(cbOp) # TargetOf(mainOp)

\* the sense control field of line n in the values reg of EICRA or EICRB
FieldIn(reg, n) == Field(reg, n % 4)

\* C26 as stated: while setExtIntEventType(n, new) runs, and after it, the
\* field of line n holds the code it held at the call or new AND 3.
C26_FieldIsOldOrNew ==
    (mainOp.fn = "setExtIntEventType" /\ Valid(mainOp)) =>
        FieldOfLine(mainOp.line) \in
            {FieldIn(mainOp.old, mainOp.line), mainOp.val % 4}

\* C26: while setExtIntEventType(n, new) runs, the field of line n holds
\* the code it held at the call until the first write of the register, the
\* code 0 (level-active-low) from the first write until the second, and
\* new AND 3 from the second write on.
C26_FieldIsOldThenZeroThenNew ==
    (mainOp.fn = "setExtIntEventType" /\ Valid(mainOp)) =>
        FieldOfLine(mainOp.line) =
            CASE mainPc < 2 -> FieldIn(mainOp.old, mainOp.line)
              [] mainPc \in {2, 3} -> EXTINT_LOW_LEVEL_ACTIVE
              [] OTHER -> mainOp.val % 4

\* setExtIntEventType(n, EXTINT_FALLING_EDGE) on a line of rising edges has
\* cleared the field and not yet written it, and the handler of an
\* interrupt runs
C26_Witness ==
    /\ mainOp.fn = "setExtIntEventType"
    /\ mainOp.val = EXTINT_FALLING_EDGE
    /\ FieldIn(mainOp.old, mainOp.line) = EXTINT_RISING_EDGE
    /\ mainPc = 2
    /\ FieldOfLine(mainOp.line) = EXTINT_LOW_LEVEL_ACTIVE
    /\ isr.active

\* (r AND NOT m) OR (v AND m)
FinalValue(r, v, m) == BitOr(BitAnd(r, 255 - m), BitAnd(v, m))

\* C27 as stated: while writePort / setPortPullup / setPortMode(port, v, m)
\* runs, and after it, the register holds the value r it held at the call
\* or (r AND NOT m) OR (v AND m).
C27_RegisterIsOldOrFinal ==
    (mainOp.fn \in PortFns /\ Valid(mainOp) /\ Undisturbed) =>
        Target(mainOp) \in
            {mainOp.old, FinalValue(mainOp.old, mainOp.val, mainOp.mask)}

\* C27: while writePort / setPortPullup / setPortMode(port, v, m) runs, the
\* register holds the value r it held at the call until the first write,
\* r OR (v AND m) from the first write until the second (the masked bits
\* that v sets are set, the masked bits that v clears still hold their old
\* value), and (r AND NOT m) OR (v AND m) from the second write on.
C27_RegisterIsOldThenSetThenFinal ==
    (mainOp.fn \in PortFns /\ Valid(mainOp) /\ Undisturbed) =>
        Target(mainOp) =
            CASE mainPc < 2 -> mainOp.old
              [] mainPc \in {2, 3} ->
                     BitOr(mainOp.old, BitAnd(mainOp.val, mainOp.mask))
              [] OTHER -> FinalValue(mainOp.old, mainOp.val, mainOp.mask)

\* writePort has set the masked bits of PORTB that the value sets and not
\* yet cleared the others: the register holds neither the old nor the final
\* value, and the handler of an interrupt runs
C27_Witness ==
    /\ mainOp.fn = "writePort"
    /\ mainPc = 2
    /\ Undisturbed
    /\ PORT[mainOp.port] # mainOp.old
    /\ PORT[mainOp.port] # FinalValue(mainOp.old, mainOp.val, mainOp.mask)
    /\ isr.active

\* the handler of line n is running
HandlerOf(n) == isr.active /\ isr.line = n

\* C25 as stated: attachExtIntCallback(n, .) and detachExtIntCallback(n)
\* being called only while line n is disabled, the pointer that the handler
\* of line n has read, tested and calls is NULL or a pointer passed to one
\* call of attachExtIntCallback, with both its bytes.
C25_HandlerReadsAWholeSlot ==
    HandlerOf(intN) => Whole(isr.callback)

\* a callback has attached a callback to line n, or has enabled line n,
\* while attachExtIntCallback(n, .) or detachExtIntCallback(n) of main was
\* executing
SlotDisturbed ==
    /\ cbOp.during \in SlotFns
    /\ cbOp.line = intN
    /\ cbOp.fn \in SlotFns \cup {"enableExtInt"}

\* C25: attachExtIntCallback(n, .) and detachExtIntCallback(n) being called
\* only while line n is disabled, and no callback having enabled line n or
\* attached or detached its callback while a call of main to one of the two
\* for line n was executing, the pointer that the handler of line n has
\* read, tested and calls is NULL or a pointer passed to one call of
\* attachExtIntCallback, with both its bytes.
C25_HandlerReadsAWholeSlotUndisturbed ==
    (HandlerOf(intN) /\ ~SlotDisturbed) => Whole(isr.callback)

\* main has attached cb3 to the disabled line n, a callback has called a
\* function meanwhile, main has enabled the line, and the handler of the
\* line calls cb3
C25_Witness ==
    /\ HandlerOf(intN)
    /\ isr.callback = Ptr("cb3")
    /\ cbOp.during = "attachExtIntCallback"
    /\ ~SlotDisturbed
    /\ mainOp.fn = "enableExtInt"

=============================================================================
